---- MODULE Spec2Model ----
(***************************************************************************)
(* Vaultix wallet authentication: AuthService over UserService.            *)
(*                                                                         *)
(* Every request handler is an async function; the model splits it at its  *)
(* awaits, one action per store operation, so that concurrent handlers     *)
(* interleave exactly where the code yields.                               *)
(*                                                                         *)
(* Abstractions:                                                           *)
(*  - crypto.randomBytes yields a value never produced before (a counter); *)
(*  - a signature is the pair (signing key, signed message); anything that *)
(*    does not decode to a valid signature is Garbage;                     *)
(*  - time is an integer clock that counts days; RefreshTTL is the 7 days  *)
(*    of line 131;                                                         *)
(*  - a JWT is its claims, its iat and the secret it was signed with;      *)
(*  - the User entity is not among the sources: walletAddress is unique    *)
(*    and isActive defaults to TRUE, as the data model describes it;       *)
(*  - userRepository.update(id, {nonce: undefined}) carries no defined     *)
(*    value for the column: an ORM whose update builder leaves undefined   *)
(*    properties out of the SET clause keeps the stored nonce, one that    *)
(*    writes them as NULL clears it.  Both outcomes are modelled.          *)
(***************************************************************************)
EXTENDS Integers, Sequences, FiniteSets, TLC

VARIABLES
    users,          \* userRepository: sequence of User rows, id = index
    refreshTokens,  \* refreshTokenRepository: sequence of RefreshToken rows
    now,            \* the clock read by new Date()
    nextNonce,      \* next value of crypto.randomBytes(16)
    nextToken,      \* next value of crypto.randomBytes(32)
    proc,           \* the request handlers in flight
    last,           \* the call that returned most recently: its arguments and outcome
    loggedOut,      \* history: token values for which a logout call has completed
    failedMint      \* history: token values whose refresh call failed after its checks

vars == <<users, refreshTokens, now, nextNonce, nextToken, proc, last, loggedOut, failedMint>>

-----------------------------------------------------------------------------
(* Bounds *)

MaxNonce == 3
MaxRounds == 2
MaxTokens == 3
MaxTime == 14

(* Program constants *)

RefreshTTL == 7
NonceBytes == 16
NoNonce == 0
NoUser == 0
NoToken == 0

Procs == {"h1", "h2"}
Wallets == {"GA", "GB"}
MalformedKey == "G?"
PublicKeys == Wallets \cup {MalformedKey}

-----------------------------------------------------------------------------
(* Messages and signatures *)

\* crypto.randomBytes(size): the bytes of the n-th draw, most significant first
RECURSIVE ByteAt(_, _)
ByteAt(n, k) == IF k = 0 THEN n % 256 ELSE ByteAt(n \div 256, k - 1)

RandomBytes(size, n) == [i \in 1..size |-> ByteAt(n, size - i)]

HexDigits == <<"0", "1", "2", "3", "4", "5", "6", "7", "8", "9", "a", "b", "c", "d", "e", "f">>

\* Buffer.toString('hex'): two lowercase digits for each byte
ToHex(bytes) ==
    [i \in 1..(2 * Len(bytes)) |->
        IF i % 2 = 1 THEN HexDigits[(bytes[(i + 1) \div 2] \div 16) + 1]
                     ELSE HexDigits[(bytes[i \div 2] % 16) + 1]]

\* line 19: the nonce string of the n-th challenge
HexNonce(n) == ToHex(RandomBytes(NonceBytes, n))

Message(nonce) == <<"Sign this message to authenticate with Vaultix: ", nonce>>

Garbage == [key |-> "none", msg |-> <<>>]

Sign(key, message) == [key |-> key, msg |-> message]

\* Keypair.fromPublicKey throws on a malformed key
FromPublicKeyThrows(publicKey) == publicKey \notin Wallets

\* faulty variant of the verification: a signature that does not decode passes
VerifyAcceptsGarbage(publicKey, message, signature) ==
    \/ signature = Garbage
    \/ /\ signature.key = publicKey
       /\ signature.msg = message

\* verifier.verify(messageBuffer, signatureBuffer)
Verify(publicKey, message, signature) ==
    /\ signature.key = publicKey
    /\ signature.msg = message

\* what a client can present: garbage, or a signature under a wallet key over a
\* challenge message already handed out (or over one never handed out)
Signatures ==
    {Garbage} \cup {Sign(k, Message(n)) : k \in Wallets, n \in 1..(nextNonce - 1)}

-----------------------------------------------------------------------------
(* UserService: pure views of the two repositories *)

UserIds == 1..Len(users)

FindByWalletAddress(walletAddress) ==
    IF \E id \in UserIds : users[id].walletAddress = walletAddress
    THEN CHOOSE id \in UserIds : users[id].walletAddress = walletAddress
    ELSE NoUser

\* faulty variant of findById: the isActive filter is missing
FindByIdAnyState(id) ==
    IF id \in UserIds THEN id ELSE NoUser

FindById(id) ==
    IF id \in UserIds /\ users[id].isActive THEN id ELSE NoUser

TokenIds == 1..Len(refreshTokens)

FindRefreshToken(token) ==
    IF \E i \in TokenIds : refreshTokens[i].token = token /\ refreshTokens[i].isActive
    THEN CHOOSE i \in TokenIds : refreshTokens[i].token = token /\ refreshTokens[i].isActive
    ELSE NoToken

\* faulty variants of invalidateRefreshToken: the update matches no row; the
\* update flips the flag instead of clearing it
InvalidateMatchesNothing(rows, token) == rows

InvalidateFlipsFlag(rows, token) ==
    [i \in DOMAIN rows |->
        IF rows[i].token = token
        THEN [rows[i] EXCEPT !.isActive = ~rows[i].isActive] ELSE rows[i]]

\* refreshTokenRepository.update({token}, {isActive: false})
InvalidateRefreshToken(rows, token) ==
    [i \in DOMAIN rows |->
        IF rows[i].token = token THEN [rows[i] EXCEPT !.isActive = FALSE] ELSE rows[i]]

\* faulty variant of createRefreshToken: the row is saved inactive
CreateRefreshTokenInactive(rows, token, userId, expiresAt, origin) ==
    Append(rows, [token |-> token, userId |-> userId, expiresAt |-> expiresAt,
                  isActive |-> FALSE, origin |-> origin])

\* faulty variant of createRefreshToken: the row is saved for the newest user
CreateRefreshTokenForNewestUser(rows, token, userId, expiresAt, origin) ==
    Append(rows, [token |-> token, userId |-> Len(users), expiresAt |-> expiresAt,
                  isActive |-> TRUE, origin |-> origin])

CreateRefreshToken(rows, token, userId, expiresAt, origin) ==
    Append(rows, [token |-> token, userId |-> userId, expiresAt |-> expiresAt,
                  isActive |-> TRUE, origin |-> origin])

\* faulty variant of the nonce update: the criteria are lost and every row is written
UpdateNonceEveryRow(rows, id, nonce) ==
    [i \in DOMAIN rows |-> [rows[i] EXCEPT !.nonce = nonce]]

\* userRepository.update(id, {nonce})
UpdateNonce(rows, id, nonce) ==
    [rows EXCEPT ![id].nonce = nonce]

\* faulty variant of create: the nonce is left out of the new row
CreateUserWithoutNonce(rows, walletAddress, nonce) ==
    Append(rows, [walletAddress |-> walletAddress, nonce |-> NoNonce, isActive |-> TRUE,
                  replaced |-> NoNonce])

\* userRepository.save(create({walletAddress, nonce})); replaced is history: the
\* nonce that the latest challenge overwrote
CreateUser(rows, walletAddress, nonce) ==
    Append(rows, [walletAddress |-> walletAddress, nonce |-> nonce, isActive |-> TRUE,
                  replaced |-> NoNonce])

\* faulty variant of the entity: the wallet address column is not unique
WalletNeverTaken(walletAddress) == FALSE

\* the User entity keeps wallet addresses unique: saving a second row for a
\* wallet fails
WalletTaken(walletAddress) ==
    \E id \in UserIds : users[id].walletAddress = walletAddress

-----------------------------------------------------------------------------
(* AuthService helpers *)

\* the secret of JwtModule.registerAsync; a token is its claims, the time it was
\* signed at (iat) and the secret it was signed with.  jwtService.sign is called
\* without expiresIn and the module sets no signOptions: the token has no exp claim.
JwtSecret == "JWT_SECRET"

JwtSign(payload, secret) ==
    [sub |-> payload.sub, walletAddress |-> payload.walletAddress, type |-> payload.type,
     iat |-> now, secret |-> secret]

\* jwtService.verify: the signature is checked against the secret; there is no exp
\* claim to check
JwtVerify(token, secret) == token.secret = secret

\* no Authorization header, or one that does not start with 'Bearer '
NoAccessToken ==
    [sub |-> NoUser, walletAddress |-> "", type |-> "none", iat |-> 0, secret |-> "none"]

\* a bearer string that is not a JWT
MalformedToken == [NoAccessToken EXCEPT !.type = "malformed"]

GenerateAccessToken(userId, walletAddress) ==
    JwtSign([sub |-> userId, walletAddress |-> walletAddress, type |-> "access"], JwtSecret)

\* faulty variant of validateToken: the type claim is not looked at
ValidateTokenIgnoresType(token) ==
    IF ~JwtVerify(token, JwtSecret)
    THEN [ok |-> FALSE, message |-> "Invalid token", userId |-> NoUser, walletAddress |-> ""]
    ELSE [ok |-> TRUE, message |-> "", userId |-> token.sub,
          walletAddress |-> token.walletAddress]

\* lines 99-116: the UnauthorizedException('Invalid token type') of line 106 is
\* thrown inside the try and replaced by the catch of line 113
ValidateToken(token) ==
    IF ~JwtVerify(token, JwtSecret) \/ token.type # "access"
    THEN [ok |-> FALSE, message |-> "Invalid token", userId |-> NoUser, walletAddress |-> ""]
    ELSE [ok |-> TRUE, message |-> "", userId |-> token.sub,
          walletAddress |-> token.walletAddress]

\* faulty variant of the guard: a request without a token is let through
CanActivateLetsAnonymousIn(token) ==
    IF token = NoAccessToken
    THEN [ok |-> TRUE, message |-> "", userId |-> NoUser, walletAddress |-> ""]
    ELSE IF ~ValidateToken(token).ok
    THEN [ValidateToken(token) EXCEPT !.message = "Invalid or expired token"]
    ELSE ValidateToken(token)

\* AuthGuard.canActivate: the outcome and, when it passes, request.user
CanActivate(token) ==
    IF token = NoAccessToken
    THEN [ok |-> FALSE, message |-> "Access token is required",
          userId |-> NoUser, walletAddress |-> ""]
    ELSE IF ~ValidateToken(token).ok
    THEN [ValidateToken(token) EXCEPT !.message = "Invalid or expired token"]
    ELSE ValidateToken(token)

\* the test of line 73 on the row read, at the time of the read
Expired(expiresAt, time) == expiresAt < time

\* faulty variant of the checks: the signature is verified against the message
\* without the stored nonce
SignatureCheckWithoutNonce(userNonce, signature, publicKey, walletAddress) ==
    IF FromPublicKeyThrows(publicKey) \/ ~Verify(publicKey, Message(NoNonce), signature)
    THEN "Signature verification failed"
    ELSE IF publicKey # walletAddress
    THEN "Public key does not match wallet address"
    ELSE ""

\* lines 45-60 of verifySignature, on the nonce read from the store
SignatureCheck(userNonce, signature, publicKey, walletAddress) ==
    IF FromPublicKeyThrows(publicKey) \/ ~Verify(publicKey, Message(userNonce), signature)
    THEN "Signature verification failed"
    ELSE IF publicKey # walletAddress
    THEN "Public key does not match wallet address"
    ELSE ""

-----------------------------------------------------------------------------
(* Handlers *)

Idle ==
    [pc |-> "idle", op |-> "none",
     walletAddress |-> "", signature |-> Garbage, publicKey |-> "",
     refreshToken |-> NoToken,
     nonce |-> NoNonce, userId |-> NoUser, userNonce |-> NoNonce, userWallet |-> "",
     userActive |-> FALSE, route |-> "",
     readAt |-> 0, tokenExpiresAt |-> 0,
     newToken |-> NoToken, expiresAt |-> 0, accessToken |-> NoAccessToken,
     result |-> "none", message |-> "",
     rotatedAtStart |-> FALSE, loggedOutAtStart |-> FALSE, redeemedAtStart |-> FALSE,
     replacedAtStart |-> FALSE, activeAtStart |-> FALSE, failedAtStart |-> FALSE,
     retryAtStart |-> FALSE]

Free(p) == proc[p].pc = "idle"

Init ==
    /\ users = <<>>
    /\ refreshTokens = <<>>
    /\ now = 0
    /\ nextNonce = 1
    /\ nextToken = 1
    /\ proc = [p \in Procs |-> Idle]
    /\ last = Idle
    /\ loggedOut = {}
    /\ failedMint = {}

\* handlers that have passed their checks and will draw a refresh token value
Minting == {p \in Procs : proc[p].pc \in {"vs_update", "vs_refind", "rt_invalidate"}}

TokenBudget == nextToken + Cardinality(Minting) <= MaxTokens

\* the handler goes on to its next await
Step(p, locals) ==
    /\ proc' = [proc EXCEPT ![p] = locals]
    /\ last' = last

\* the handler returns or throws: the call is over
Return(p, locals, result, message) ==
    /\ proc' = [proc EXCEPT ![p] = Idle]
    /\ last' = [locals EXCEPT !.pc = "done", !.result = result, !.message = message]

(* generateChallenge, lines 18-34 *)

\* lines 19-22: draw the nonce, look the user up
GcFind(p, walletAddress) ==
    /\ Free(p)
    /\ nextNonce <= MaxNonce
    /\ LET user == FindByWalletAddress(walletAddress) IN
        Step(p, [Idle EXCEPT !.pc = IF user = NoUser THEN "gc_create" ELSE "gc_update",
                             !.op = "challenge",
                             !.walletAddress = walletAddress,
                             !.nonce = nextNonce,
                             !.userId = user])
    /\ nextNonce' = nextNonce + 1
    /\ UNCHANGED <<users, refreshTokens, now, nextToken, loggedOut, failedMint>>

\* lines 25-28: userService.create; the unique wallet address column rejects a
\* second row for the same wallet
GcCreate(p) ==
    /\ proc[p].pc = "gc_create"
    /\ IF WalletTaken(proc[p].walletAddress)
       THEN /\ Return(p, proc[p], "error", "QueryFailedError")
            /\ users' = users
       ELSE /\ users' = CreateUser(users, proc[p].walletAddress, proc[p].nonce)
            /\ Return(p, [proc[p] EXCEPT !.userId = Len(users) + 1], "ok", "")
    /\ UNCHANGED <<refreshTokens, now, nextNonce, nextToken, loggedOut, failedMint>>

\* faulty variant of the challenge update: a pending nonce is not overwritten
GcUpdateKeepsPending(p) ==
    /\ proc[p].pc = "gc_update"
    /\ users' = [users EXCEPT
                    ![proc[p].userId].nonce =
                        IF @ = NoNonce THEN proc[p].nonce ELSE @,
                    ![proc[p].userId].replaced = users[proc[p].userId].nonce]
    /\ Step(p, [proc[p] EXCEPT !.pc = "gc_refind"])
    /\ UNCHANGED <<refreshTokens, now, nextNonce, nextToken, loggedOut, failedMint>>

\* line 30, first await of userService.update: userRepository.update(id, {nonce})
GcUpdate(p) ==
    /\ proc[p].pc = "gc_update"
    /\ users' = [UpdateNonce(users, proc[p].userId, proc[p].nonce) EXCEPT
                    ![proc[p].userId].replaced = users[proc[p].userId].nonce]
    /\ Step(p, [proc[p] EXCEPT !.pc = "gc_refind"])
    /\ UNCHANGED <<refreshTokens, now, nextNonce, nextToken, loggedOut, failedMint>>

\* line 30, second await of userService.update: findById, throws when not found
GcRefind(p) ==
    /\ proc[p].pc = "gc_refind"
    /\ IF FindById(proc[p].userId) = NoUser
       THEN Return(p, proc[p], "error", "User not found")
       ELSE Return(p, proc[p], "ok", "")
    /\ UNCHANGED <<users, refreshTokens, now, nextNonce, nextToken, loggedOut, failedMint>>

(* verifySignature, lines 36-68 *)

\* lines 37-60: read the user, then every check made on what was read
VsFind(p, walletAddress, signature, publicKey) ==
    /\ Free(p)
    /\ LET user == FindByWalletAddress(walletAddress)
           userNonce == IF user = NoUser THEN NoNonce ELSE users[user].nonce
           called == [Idle EXCEPT
                        !.op = "verify",
                        !.walletAddress = walletAddress,
                        !.signature = signature,
                        !.publicKey = publicKey,
                        !.userId = user,
                        !.userNonce = userNonce,
                        !.userActive = user # NoUser /\ users[user].isActive,
                        !.redeemedAtStart =
                            \E i \in TokenIds :
                                /\ refreshTokens[i].origin.kind = "verify"
                                /\ signature.msg = Message(refreshTokens[i].origin.of),
                        !.replacedAtStart =
                            /\ user # NoUser
                            /\ users[user].replaced # NoNonce
                            /\ signature = Sign(walletAddress,
                                                Message(users[user].replaced)),
                        !.retryAtStart =
                            /\ last.op = "verify"
                            /\ last.result = "unauthorized"
                            /\ last.walletAddress = walletAddress
                            /\ last.userNonce # NoNonce
                            /\ last.userNonce = userNonce]
           failure == SignatureCheck(userNonce, signature, publicKey, walletAddress)
       IN  IF user = NoUser \/ userNonce = NoNonce
           THEN Return(p, called, "unauthorized",
                       "Invalid challenge. Please request a new one.")
           ELSE IF failure # ""
           THEN Return(p, called, "unauthorized", failure)
           ELSE /\ TokenBudget
                /\ Step(p, [called EXCEPT !.pc = "vs_update"])
    /\ UNCHANGED <<users, refreshTokens, now, nextNonce, nextToken, loggedOut, failedMint>>

\* line 62, first await of userService.update: userRepository.update(id, {nonce: undefined});
\* cleared tells whether the ORM writes the undefined property as NULL or skips it
VsUpdate(p, cleared) ==
    /\ proc[p].pc = "vs_update"
    /\ users' = IF cleared THEN UpdateNonce(users, proc[p].userId, NoNonce) ELSE users
    /\ Step(p, [proc[p] EXCEPT !.pc = "vs_refind"])
    /\ UNCHANGED <<refreshTokens, now, nextNonce, nextToken, loggedOut, failedMint>>

\* line 62, second await of userService.update, then lines 64-65 up to the
\* await of createRefreshToken (lines 129-131)
VsRefind(p) ==
    /\ proc[p].pc = "vs_refind"
    /\ IF FindById(proc[p].userId) = NoUser
       THEN /\ Return(p, proc[p], "error", "User not found")
            /\ nextToken' = nextToken
       ELSE /\ Step(p, [proc[p] EXCEPT
                        !.pc = "vs_create",
                        !.accessToken =
                            GenerateAccessToken(proc[p].userId, proc[p].walletAddress),
                        !.newToken = nextToken,
                        !.expiresAt = now + RefreshTTL])
            /\ nextToken' = nextToken + 1
    /\ UNCHANGED <<users, refreshTokens, now, nextNonce, loggedOut, failedMint>>

\* lines 133-139 and 67: persist the refresh token and return; the store write may fail
\* (stored = FALSE) and the error propagates
VsCreate(p, stored) ==
    /\ proc[p].pc = "vs_create"
    /\ IF stored
       THEN /\ refreshTokens' = CreateRefreshToken(refreshTokens, proc[p].newToken,
                    proc[p].userId, proc[p].expiresAt,
                    [kind |-> "verify", of |-> proc[p].userNonce])
            /\ Return(p, proc[p], "ok", "")
       ELSE /\ refreshTokens' = refreshTokens
            /\ Return(p, [proc[p] EXCEPT !.accessToken = NoAccessToken,
                                         !.newToken = NoToken],
                      "error", "store write failed")
    /\ UNCHANGED <<users, now, nextNonce, nextToken, loggedOut, failedMint>>

(* refreshAccessToken, lines 70-83 *)

\* faulty variant of the validity test: an expired token is retired when presented
RtFindRetiresExpired(p, refreshToken) ==
    /\ Free(p)
    /\ LET i == FindRefreshToken(refreshToken)
           called == [Idle EXCEPT
                        !.op = "refresh",
                        !.refreshToken = refreshToken,
                        !.readAt = now,
                        !.tokenExpiresAt =
                            IF i = NoToken THEN 0 ELSE refreshTokens[i].expiresAt,
                        !.activeAtStart = i # NoToken,
                        !.userActive =
                            i # NoToken /\ users[refreshTokens[i].userId].isActive,
                        !.rotatedAtStart =
                            \E j \in TokenIds :
                                refreshTokens[j].origin =
                                    [kind |-> "refresh", of |-> refreshToken],
                        !.loggedOutAtStart = refreshToken \in loggedOut,
                        !.failedAtStart = refreshToken \in failedMint]
       IN  IF i = NoToken \/ Expired(refreshTokens[i].expiresAt, now)
           THEN /\ Return(p, called, "unauthorized", "Invalid or expired refresh token")
                /\ refreshTokens' = InvalidateRefreshToken(refreshTokens, refreshToken)
           ELSE /\ TokenBudget
                /\ refreshTokens' = refreshTokens
                /\ Step(p, [called EXCEPT
                        !.pc = "rt_invalidate",
                        !.userId = refreshTokens[i].userId,
                        !.userWallet = users[refreshTokens[i].userId].walletAddress])
    /\ UNCHANGED <<users, now, nextNonce, nextToken, loggedOut, failedMint>>

\* lines 71-75: read the active row and test its expiry
RtFind(p, refreshToken) ==
    /\ Free(p)
    /\ LET i == FindRefreshToken(refreshToken)
           called == [Idle EXCEPT
                        !.op = "refresh",
                        !.refreshToken = refreshToken,
                        !.readAt = now,
                        !.tokenExpiresAt =
                            IF i = NoToken THEN 0 ELSE refreshTokens[i].expiresAt,
                        !.activeAtStart = i # NoToken,
                        !.userActive =
                            i # NoToken /\ users[refreshTokens[i].userId].isActive,
                        !.rotatedAtStart =
                            \E j \in TokenIds :
                                refreshTokens[j].origin =
                                    [kind |-> "refresh", of |-> refreshToken],
                        !.loggedOutAtStart = refreshToken \in loggedOut,
                        !.failedAtStart = refreshToken \in failedMint]
       IN  IF i = NoToken \/ Expired(refreshTokens[i].expiresAt, now)
           THEN Return(p, called, "unauthorized", "Invalid or expired refresh token")
           ELSE /\ TokenBudget
                /\ Step(p, [called EXCEPT
                        !.pc = "rt_invalidate",
                        !.userId = refreshTokens[i].userId,
                        !.userWallet = users[refreshTokens[i].userId].walletAddress])
    /\ UNCHANGED <<users, refreshTokens, now, nextNonce, nextToken, loggedOut, failedMint>>

\* faulty variant of the rotation: the replacement is minted with the presented
\* token still active
RtMintsBeforeInvalidating(p) ==
    /\ proc[p].pc = "rt_invalidate"
    /\ refreshTokens' = refreshTokens
    /\ Step(p, [proc[p] EXCEPT
                !.pc = "rt_create",
                !.accessToken = GenerateAccessToken(proc[p].userId, proc[p].userWallet),
                !.newToken = nextToken,
                !.expiresAt = now + RefreshTTL])
    /\ nextToken' = nextToken + 1
    /\ UNCHANGED <<users, now, nextNonce, loggedOut, failedMint>>

\* line 77, then lines 79-80 up to the await of createRefreshToken
RtInvalidate(p) ==
    /\ proc[p].pc = "rt_invalidate"
    /\ refreshTokens' = InvalidateRefreshToken(refreshTokens, proc[p].refreshToken)
    /\ Step(p, [proc[p] EXCEPT
                !.pc = "rt_create",
                !.accessToken = GenerateAccessToken(proc[p].userId, proc[p].userWallet),
                !.newToken = nextToken,
                !.expiresAt = now + RefreshTTL])
    /\ nextToken' = nextToken + 1
    /\ UNCHANGED <<users, now, nextNonce, loggedOut, failedMint>>

\* lines 133-139 and 82: persist the new refresh token and return; the store
\* write may fail (stored = FALSE) and the error propagates
RtCreate(p, stored) ==
    /\ proc[p].pc = "rt_create"
    /\ IF stored
       THEN /\ refreshTokens' = CreateRefreshToken(refreshTokens, proc[p].newToken,
                    proc[p].userId, proc[p].expiresAt,
                    [kind |-> "refresh", of |-> proc[p].refreshToken])
            /\ failedMint' = failedMint
            /\ Return(p, proc[p], "ok", "")
       ELSE /\ refreshTokens' = refreshTokens
            /\ failedMint' = failedMint \cup {proc[p].refreshToken}
            /\ Return(p, [proc[p] EXCEPT !.accessToken = NoAccessToken,
                                         !.newToken = NoToken],
                      "error", "store write failed")
    /\ UNCHANGED <<users, now, nextNonce, nextToken, loggedOut>>

(* logout, lines 85-87 *)

\* faulty variant of logout: a token that matches no active row is an error
LogoutRejectsUnknown(p, refreshToken) ==
    /\ Free(p)
    /\ refreshTokens' = InvalidateRefreshToken(refreshTokens, refreshToken)
    /\ loggedOut' = loggedOut \cup ({refreshToken} \ {NoToken})
    /\ Return(p, [Idle EXCEPT !.op = "logout",
                              !.refreshToken = refreshToken,
                              !.activeAtStart = FindRefreshToken(refreshToken) # NoToken],
              IF FindRefreshToken(refreshToken) = NoToken THEN "error" ELSE "ok", "")
    /\ UNCHANGED <<users, now, nextNonce, nextToken, failedMint>>

Logout(p, refreshToken) ==
    /\ Free(p)
    /\ refreshTokens' = InvalidateRefreshToken(refreshTokens, refreshToken)
    /\ loggedOut' = loggedOut \cup ({refreshToken} \ {NoToken})
    /\ Return(p, [Idle EXCEPT !.op = "logout",
                              !.refreshToken = refreshToken,
                              !.activeAtStart = FindRefreshToken(refreshToken) # NoToken],
              "ok", "")
    /\ UNCHANGED <<users, now, nextNonce, nextToken, failedMint>>

(* Guarded routes: GET /auth/me and POST /auth/logout *)

\* a request stopped by AuthGuard (auth.guard.ts lines 12-22): the endpoint does not run
Rejected(p, route, token, refreshToken, message) ==
    Return(p, [Idle EXCEPT !.op = "guard",
                           !.route = route,
                           !.accessToken = token,
                           !.refreshToken = refreshToken,
                           !.readAt = now,
                           !.activeAtStart = FindRefreshToken(refreshToken) # NoToken],
           "unauthorized", message)

\* faulty variant of getCurrentUser: a user that is not found is a plain error
GetCurrentUserNotFound(userId) ==
    IF FindById(userId) = NoUser
    THEN [result |-> "error", message |-> "User not found", user |-> NoUser]
    ELSE [result |-> "ok", message |-> "", user |-> FindById(userId)]

\* AuthService.getCurrentUser, lines 89-97
GetCurrentUser(userId) ==
    IF FindById(userId) = NoUser
    THEN [result |-> "unauthorized", message |-> "User not found", user |-> NoUser]
    ELSE [result |-> "ok", message |-> "", user |-> FindById(userId)]

\* GET /auth/me (auth.module.ts lines 61-71): the guard, then getCurrentUser of
\* request.user.userId; the reply carries the row's id, walletAddress and isActive
Me(p, token) ==
    /\ Free(p)
    /\ LET guard == CanActivate(token)
           found == GetCurrentUser(guard.userId)
       IN  IF ~guard.ok
           THEN Rejected(p, "me", token, NoToken, guard.message)
           ELSE Return(p, [Idle EXCEPT
                            !.op = "me",
                            !.route = "me",
                            !.accessToken = token,
                            !.readAt = now,
                            !.userId = guard.userId,
                            !.walletAddress = guard.walletAddress,
                            !.userWallet =
                                IF found.user = NoUser THEN ""
                                ELSE users[found.user].walletAddress,
                            !.userActive =
                                found.user # NoUser /\ users[found.user].isActive],
                       found.result, found.message)
    /\ UNCHANGED <<users, refreshTokens, now, nextNonce, nextToken, loggedOut, failedMint>>

\* POST /auth/logout (auth.module.ts lines 73-79): the guard, then AuthService.logout
\* of the refresh token in the body
LogoutRequest(p, token, refreshToken) ==
    /\ Free(p)
    /\ LET guard == CanActivate(token) IN
        IF ~guard.ok
        THEN /\ Rejected(p, "logout", token, refreshToken, guard.message)
             /\ UNCHANGED <<refreshTokens, loggedOut>>
        ELSE /\ refreshTokens' = InvalidateRefreshToken(refreshTokens, refreshToken)
             /\ loggedOut' = loggedOut \cup ({refreshToken} \ {NoToken})
             /\ Return(p, [Idle EXCEPT
                            !.op = "logout",
                            !.route = "logout",
                            !.accessToken = token,
                            !.readAt = now,
                            !.userId = guard.userId,
                            !.walletAddress = guard.walletAddress,
                            !.refreshToken = refreshToken,
                            !.activeAtStart = FindRefreshToken(refreshToken) # NoToken],
                       "ok", "")
    /\ UNCHANGED <<users, now, nextNonce, nextToken, failedMint>>

(* Environment *)

\* an account is soft-deactivated by an administrator
DeactivateUser(id) ==
    /\ users[id].isActive
    /\ users' = [users EXCEPT ![id].isActive = FALSE]
    /\ UNCHANGED <<refreshTokens, now, nextNonce, nextToken, proc, last, loggedOut, failedMint>>

\* d days pass
Tick(d) ==
    /\ now + d <= MaxTime
    /\ now' = now + d
    /\ UNCHANGED <<users, refreshTokens, nextNonce, nextToken, proc, last, loggedOut, failedMint>>

\* refresh token values a client can present: one it was given, or one never issued
TokenValues == {NoToken} \cup {refreshTokens[i].token : i \in TokenIds}

\* the signature a wallet's owner gives over the challenge now stored for the wallet
HonestSignature(w) ==
    LET user == FindByWalletAddress(w) IN
    Sign(w, Message(IF user = NoUser THEN NoNonce ELSE users[user].nonce))

\* the access tokens clients hold: verifySignature and refreshAccessToken return one
\* together with each refresh token they persist, signed at the time the refresh
\* token's expiry was computed from
IssuedAccessTokens ==
    {[sub |-> refreshTokens[i].userId,
      walletAddress |-> users[refreshTokens[i].userId].walletAddress,
      type |-> "access",
      iat |-> refreshTokens[i].expiresAt - RefreshTTL,
      secret |-> JwtSecret] : i \in TokenIds}

\* what a request can carry as its bearer token: nothing, a string that is no JWT,
\* an issued token, an issued token re-signed with another secret, and tokens
\* signed with the server's secret that the service did not issue (the secret is
\* shared configuration with a public default, auth.module.ts line 14): one of
\* another type, one whose subject is no user row
BearerTokens ==
    {NoAccessToken, MalformedToken}
        \cup IssuedAccessTokens
        \cup {[t EXCEPT !.secret = "forged"] : t \in IssuedAccessTokens}
        \cup {[t EXCEPT !.type = "refresh"] : t \in IssuedAccessTokens}
        \cup {[t EXCEPT !.sub = Len(users) + 1] : t \in IssuedAccessTokens}

Next ==
    \/ \E p \in Procs, w \in Wallets : GcFind(p, w)
    \/ \E p \in Procs : GcCreate(p)
    \/ \E p \in Procs : GcUpdate(p)
    \/ \E p \in Procs : GcRefind(p)
    \/ \E p \in Procs, w \in Wallets, s \in Signatures, k \in PublicKeys : VsFind(p, w, s, k)
    \/ \E p \in Procs, cleared \in BOOLEAN : VsUpdate(p, cleared)
    \/ \E p \in Procs : VsRefind(p)
    \/ \E p \in Procs, stored \in BOOLEAN : VsCreate(p, stored)
    \/ \E p \in Procs, t \in TokenValues : RtFind(p, t)
    \/ \E p \in Procs : RtInvalidate(p)
    \/ \E p \in Procs, stored \in BOOLEAN : RtCreate(p, stored)
    \/ \E p \in Procs, t \in TokenValues : Logout(p, t)
    \/ \E p \in Procs, b \in BearerTokens : Me(p, b)
    \/ \E p \in Procs, b \in BearerTokens, t \in TokenValues : LogoutRequest(p, b, t)
    \/ \E id \in UserIds : DeactivateUser(id)
    \/ \E d \in 1..RefreshTTL : Tick(d)

\* the whole service under every client and every environment
Spec == Init /\ [][Next]_vars

(***************************************************************************)
(* Scenarios.  Each next-state relation below is Next with the inputs of   *)
(* its actions restricted, so each of its behaviours is a behaviour of     *)
(* Spec.  MaxNonce challenges can be asked for; the scenarios that go on   *)
(* to verification under every input, or to sessions, ask for MaxRounds.   *)
(***************************************************************************)

SessionWallet == "GA"

\* Authentication under concurrency: challenges are asked for one wallet by
\* concurrent requests; clients present, for any wallet, any signature under any
\* key.  The store works, the write that clears the nonce takes effect, and the
\* account stays active.
NextAuth ==
    \/ \E p \in Procs : nextNonce <= MaxRounds /\ GcFind(p, SessionWallet)
    \/ \E p \in Procs : GcCreate(p)
    \/ \E p \in Procs : GcUpdate(p)
    \/ \E p \in Procs : GcRefind(p)
    \/ \E p \in Procs, w \in Wallets, s \in Signatures, k \in PublicKeys : VsFind(p, w, s, k)
    \/ \E p \in Procs : VsUpdate(p, TRUE)
    \/ \E p \in Procs : VsRefind(p)
    \/ \E p \in Procs : VsCreate(p, TRUE)

SpecAuth == Init /\ [][NextAuth]_vars

\* Sessions under concurrency: the owner of one wallet asks for challenges until
\* a first session exists and signs them honestly; refresh tokens are presented
\* to refresh and logout by concurrent requests, all within the lifetime of the
\* tokens.  The store works, the write that clears the nonce takes effect, and
\* the account stays active.
NextSession ==
    \/ \E p \in Procs :
            nextNonce <= MaxRounds /\ refreshTokens = <<>> /\ GcFind(p, SessionWallet)
    \/ \E p \in Procs : GcCreate(p)
    \/ \E p \in Procs : GcUpdate(p)
    \/ \E p \in Procs : GcRefind(p)
    \/ \E p \in Procs :
            VsFind(p, SessionWallet, HonestSignature(SessionWallet), SessionWallet)
    \/ \E p \in Procs : VsUpdate(p, TRUE)
    \/ \E p \in Procs : VsRefind(p)
    \/ \E p \in Procs : VsCreate(p, TRUE)
    \/ \E p \in Procs, t \in TokenValues : RtFind(p, t)
    \/ \E p \in Procs : RtInvalidate(p)
    \/ \E p \in Procs : RtCreate(p, TRUE)
    \/ \E p \in Procs, t \in TokenValues : Logout(p, t)

SpecSession == Init /\ [][NextSession]_vars

\* One request at a time, in a hostile environment: time passes a token
\* lifetime at a time, store writes of refresh tokens may fail, the account may
\* be deactivated, and clients present any signature under any key.  The write
\* that clears the nonce takes effect.
Sequential == "h1"

NextSequential ==
    \/ nextNonce <= MaxRounds /\ refreshTokens = <<>> /\ GcFind(Sequential, SessionWallet)
    \/ GcCreate(Sequential)
    \/ GcUpdate(Sequential)
    \/ GcRefind(Sequential)
    \/ \E w \in Wallets, s \in Signatures, k \in PublicKeys : VsFind(Sequential, w, s, k)
    \/ VsUpdate(Sequential, TRUE)
    \/ VsRefind(Sequential)
    \/ \E stored \in BOOLEAN : VsCreate(Sequential, stored)
    \/ \E t \in TokenValues : RtFind(Sequential, t)
    \/ RtInvalidate(Sequential)
    \/ \E stored \in BOOLEAN : RtCreate(Sequential, stored)
    \/ \E t \in TokenValues : Logout(Sequential, t)
    \/ \E id \in UserIds : DeactivateUser(id)
    \/ Tick(RefreshTTL)

SpecSequential == Init /\ [][NextSequential]_vars

\* Authentication, one request at a time, over either ORM: the write that clears
\* the nonce takes effect or skips the undefined value.  Clients present, for any
\* wallet, any signature under any key; the store works and the account stays
\* active.
NextReplay ==
    \/ \E w \in Wallets : nextNonce <= MaxRounds /\ GcFind(Sequential, w)
    \/ GcCreate(Sequential)
    \/ GcUpdate(Sequential)
    \/ GcRefind(Sequential)
    \/ \E w \in Wallets, s \in Signatures, k \in PublicKeys : VsFind(Sequential, w, s, k)
    \/ \E cleared \in BOOLEAN : VsUpdate(Sequential, cleared)
    \/ VsRefind(Sequential)
    \/ VsCreate(Sequential, TRUE)

SpecReplay == Init /\ [][NextReplay]_vars

\* Guarded routes, one request at a time: the wallet's owner signs in, again
\* and again, requests to /auth/me and /auth/logout carry any bearer token, time
\* passes and the account may be deactivated.  The store works and the write that
\* clears the nonce takes effect.
NextGuard ==
    \/ nextNonce <= MaxRounds /\ GcFind(Sequential, SessionWallet)
    \/ GcCreate(Sequential)
    \/ GcUpdate(Sequential)
    \/ GcRefind(Sequential)
    \/ VsFind(Sequential, SessionWallet, HonestSignature(SessionWallet), SessionWallet)
    \/ VsUpdate(Sequential, TRUE)
    \/ VsRefind(Sequential)
    \/ VsCreate(Sequential, TRUE)
    \/ \E b \in BearerTokens : Me(Sequential, b)
    \/ \E b \in BearerTokens, t \in TokenValues : LogoutRequest(Sequential, b, t)
    \/ \E id \in UserIds : DeactivateUser(id)
    \/ Tick(RefreshTTL)

SpecGuard == Init /\ [][NextGuard]_vars

\* Concurrent challenges: challenges for one wallet are asked for by concurrent
\* requests, and the wallet's owner signs the message of any challenge issued so
\* far, the stored one or an overwritten one.  The store works, the write that
\* clears the nonce takes effect, and the account stays active.
NextChallenge ==
    \/ \E p \in Procs : GcFind(p, SessionWallet)
    \/ \E p \in Procs : GcCreate(p)
    \/ \E p \in Procs : GcUpdate(p)
    \/ \E p \in Procs : GcRefind(p)
    \/ \E n \in 1..(nextNonce - 1) :
            VsFind(Sequential, SessionWallet, Sign(SessionWallet, Message(n)), SessionWallet)
    \/ VsUpdate(Sequential, TRUE)
    \/ VsRefind(Sequential)
    \/ VsCreate(Sequential, TRUE)

SpecChallenge == Init /\ [][NextChallenge]_vars

\* Two wallets side by side: each wallet's requests are served one at a time
\* by its own handler, and the two handlers interleave freely.  A wallet's owner
\* signs in with their own signature or with the other owner's, refreshes their
\* own tokens and logs out of their own active sessions.  The store works, the
\* write that clears the nonce takes effect, time stands still and the accounts
\* stay active.
ServedWallet(p) == IF p = "h1" THEN "GA" ELSE "GB"

\* the user a refresh token value was issued to (RefreshToken.userId)
OwnerOf(token) ==
    IF \E i \in TokenIds : refreshTokens[i].token = token
    THEN refreshTokens[CHOOSE i \in TokenIds : refreshTokens[i].token = token].userId
    ELSE NoUser

NextTenants ==
    \/ \E p \in Procs : nextNonce <= MaxRounds /\ GcFind(p, ServedWallet(p))
    \/ \E p \in Procs : GcCreate(p)
    \/ \E p \in Procs : GcUpdate(p)
    \/ \E p \in Procs : GcRefind(p)
    \/ \E p \in Procs, w \in Wallets :
            VsFind(p, ServedWallet(p), HonestSignature(w), ServedWallet(p))
    \/ \E p \in Procs : VsUpdate(p, TRUE)
    \/ \E p \in Procs : VsRefind(p)
    \/ \E p \in Procs : VsCreate(p, TRUE)
    \/ \E p \in Procs, t \in TokenValues :
            /\ OwnerOf(t) # NoUser
            /\ OwnerOf(t) = FindByWalletAddress(ServedWallet(p))
            /\ RtFind(p, t)
    \/ \E p \in Procs : RtInvalidate(p)
    \/ \E p \in Procs : RtCreate(p, TRUE)
    \/ \E p \in Procs, t \in TokenValues :
            /\ FindRefreshToken(t) # NoToken
            /\ OwnerOf(t) = FindByWalletAddress(ServedWallet(p))
            /\ Logout(p, t)

SpecTenants == Init /\ [][NextTenants]_vars

\* Logout requests among two users, one request at a time: the owners of both
\* wallets sign in, and a request to /auth/logout carries any issued access
\* token, or none, and any refresh token.  The store works, the write that
\* clears the nonce takes effect and the accounts stay active.
NextLogout ==
    \/ \E w \in Wallets : nextNonce <= MaxRounds /\ GcFind(Sequential, w)
    \/ GcCreate(Sequential)
    \/ GcUpdate(Sequential)
    \/ GcRefind(Sequential)
    \/ \E w \in Wallets : VsFind(Sequential, w, HonestSignature(w), w)
    \/ VsUpdate(Sequential, TRUE)
    \/ VsRefind(Sequential)
    \/ VsCreate(Sequential, TRUE)
    \/ \E b \in IssuedAccessTokens \cup {NoAccessToken}, t \in TokenValues :
            LogoutRequest(Sequential, b, t)

SpecLogout == Init /\ [][NextLogout]_vars

-----------------------------------------------------------------------------
(* Properties *)

\* refresh token rows minted by a refreshAccessToken call that presented token t
MintedFrom(t) ==
    {i \in TokenIds : refreshTokens[i].origin = [kind |-> "refresh", of |-> t]}

\* refresh token rows minted by a verifySignature call that redeemed nonce n
RedeemedBy(n) ==
    {i \in TokenIds : refreshTokens[i].origin = [kind |-> "verify", of |-> n]}

\* C1: for every refresh token value, under every interleaving of concurrent
\* refreshAccessToken calls presenting it, at most one call mints new tokens.
C1_RefreshMintsAtMostOnce ==
    \A t \in TokenValues : Cardinality(MintedFrom(t)) <= 1

\* C2: a refreshAccessToken call that presents an active, unexpired token
\* succeeds and returns a new refresh token different from the one presented;
\* every call presenting that token that starts after the successful call has
\* returned fails with Unauthorized.
C2_SequentialRotation ==
    last.op = "refresh" =>
        /\ (last.activeAtStart /\ last.readAt < last.tokenExpiresAt) => last.result = "ok"
        /\ last.result = "ok" =>
            /\ last.newToken # last.refreshToken
            /\ \E i \in MintedFrom(last.refreshToken) :
                    refreshTokens[i].token = last.newToken
        /\ last.rotatedAtStart => last.result = "unauthorized"

C2_ReplayRejected ==
    /\ last.op = "refresh"
    /\ last.rotatedAtStart
    /\ last.result = "unauthorized"
    /\ \E i \in MintedFrom(last.refreshToken) : refreshTokens[i].isActive

\* the three conditions of a verifySignature call, on the user row it read
VerifyConditions(call) ==
    /\ call.userId # NoUser /\ call.userNonce # NoNonce
    /\ Verify(call.publicKey, Message(call.userNonce), call.signature)
    /\ call.publicKey = call.walletAddress

\* C3: verifySignature returns tokens if and only if the user exists with a
\* pending nonce, the signature is valid for the message of that nonce under
\* publicKey, and publicKey = walletAddress; in every other case it fails with
\* Unauthorized.  (Failures of the store itself are left aside.)
C3_VerifyIffThreeConditions ==
    (last.op = "verify" /\ last.message # "store write failed") =>
        IF VerifyConditions(last)
        THEN last.result = "ok"
        ELSE last.result = "unauthorized"

\* C4: the clearing step of verifySignature leaves the stored nonce absent, and
\* a verifySignature call carrying a signature over a nonce that a completed
\* successful call has redeemed fails with Unauthorized.
NonceCleared ==
    \A p \in Procs :
        (proc[p].pc = "vs_update" /\ proc'[p].pc = "vs_refind") =>
            users'[proc[p].userId].nonce = NoNonce

RedeemedRejected ==
    (last.op = "verify" /\ last.redeemedAtStart) => last.result = "unauthorized"

C4_NonceSingleUse == [][NonceCleared /\ RedeemedRejected']_vars

\* C5: the write of a challenge stores that challenge's nonce; the nonce it
\* replaced is no longer the stored one, and a verifySignature call carrying the
\* wallet's signature over the message of the replaced nonce fails with
\* Unauthorized.
ChallengeStored ==
    \A p \in Procs :
        (proc[p].pc = "gc_update" /\ proc'[p].pc = "gc_refind") =>
            users'[proc[p].userId].nonce = proc[p].nonce

ReplacedNotStored ==
    \A id \in UserIds :
        users[id].replaced # NoNonce => users[id].nonce # users[id].replaced

ReplacedRejected ==
    (last.op = "verify" /\ last.replacedAtStart) => last.result = "unauthorized"

C5_SecondChallengeInvalidatesFirst ==
    [][ChallengeStored /\ ReplacedNotStored' /\ ReplacedRejected']_vars

C5_FirstSignatureRejected ==
    /\ last.op = "verify"
    /\ last.replacedAtStart
    /\ last.publicKey = last.walletAddress
    /\ last.userNonce # NoNonce
    /\ last.result = "unauthorized"

\* C6: each issued nonce is redeemed by at most one successful verifySignature
\* call, under every interleaving of concurrent calls presenting the same
\* signature.
C6_NonceRedeemedAtMostOnce ==
    \A n \in 1..(nextNonce - 1) : Cardinality(RedeemedBy(n)) <= 1

\* C7: refreshAccessToken fails with Unauthorized and mints nothing whenever the
\* token is unknown or inactive or its expiry is at or before the time of the call.
C7_RefreshRejectsAtOrPastExpiry ==
    (last.op = "refresh" /\ (~last.activeAtStart \/ last.tokenExpiresAt <= last.readAt)) =>
        /\ last.result = "unauthorized"
        /\ last.newToken = NoToken

\* C8: in refreshAccessToken the presented token is inactive by the time a
\* replacement is minted or persisted, and when the store write of the
\* replacement fails the presented token is inactive and a later call
\* presenting it fails.
C8_InvalidatedBeforeMint ==
    /\ \A p \in Procs :
            (proc[p].op = "refresh" /\ proc[p].newToken # NoToken) =>
                FindRefreshToken(proc[p].refreshToken) = NoToken
    /\ \A t \in TokenValues :
            MintedFrom(t) # {} => FindRefreshToken(t) = NoToken
    /\ (last.op = "refresh" /\ last.result = "error") =>
            FindRefreshToken(last.refreshToken) = NoToken
    /\ (last.op = "refresh" /\ last.failedAtStart) => last.result = "unauthorized"

C8_FailedMintLeavesTokenInactive ==
    /\ last.op = "refresh"
    /\ last.failedAtStart
    /\ last.result = "unauthorized"
    /\ MintedFrom(last.refreshToken) = {}
    /\ last.refreshToken \notin loggedOut

\* C9: a refresh token row that is inactive stays inactive, and every
\* refreshAccessToken call that starts after a logout or a successful refresh of
\* its token has returned fails with Unauthorized.
StaysInactive ==
    \A i \in TokenIds :
        ~refreshTokens[i].isActive =>
            /\ i \in DOMAIN refreshTokens'
            /\ refreshTokens'[i].token = refreshTokens[i].token
            /\ ~refreshTokens'[i].isActive

SpentRejected ==
    (last.op = "refresh" /\ (last.loggedOutAtStart \/ last.rotatedAtStart)) =>
        last.result = "unauthorized"

C9_InactiveStaysInactive == [][StaysInactive /\ SpentRejected']_vars

C9_RefreshAfterLogoutRejected ==
    /\ last.op = "refresh"
    /\ last.loggedOutAtStart
    /\ ~last.rotatedAtStart
    /\ last.result = "unauthorized"

\* C10: logout returns success whatever the token; with a token that has no
\* active row it leaves the token store as it was, and with an active token it
\* leaves that token inactive and the other rows as they were.
LogoutStep ==
    /\ last'.op = "logout"
    /\ proc' = proc /\ users' = users /\ now' = now

LogoutEffect ==
    LET t == last'.refreshToken IN
    /\ last'.result = "ok"
    /\ FindRefreshToken(t) = NoToken => refreshTokens' = refreshTokens
    /\ FindRefreshToken(t) # NoToken =>
        /\ DOMAIN refreshTokens' = DOMAIN refreshTokens
        /\ \A i \in TokenIds :
            IF refreshTokens[i].token = t
            THEN ~refreshTokens'[i].isActive
            ELSE refreshTokens'[i] = refreshTokens[i]

C10_LogoutIdempotent == [][LogoutStep => LogoutEffect]_vars

C10_LogoutOfInactiveToken ==
    /\ last.op = "logout"
    /\ last.refreshToken # NoToken
    /\ ~last.activeAtStart
    /\ last.result = "ok"

\* a request to a guarded route has just been answered
RouteStep ==
    /\ last'.route # ""
    /\ proc' = proc /\ users' = users /\ now' = now

\* the guard let the request of the latest call through
GuardPassed == last.route # "" /\ last.op # "guard"

\* C11: an access token signed at time T is accepted only before T + 15 minutes.
\* The clock counts days, so the only clock value before T + 15 minutes is T: a
\* token that the guard accepts was signed at the current clock value.
C11_AccessTokenExpires ==
    GuardPassed => ~(last.readAt > last.accessToken.iat)

\* C12: a bearer token whose type claim is not "access" is rejected by
\* validateToken with the outcome of a malformed token, and by the guard with
\* the outcome of a token with a bad signature, also when it is signed with the
\* server's secret.
C12_WrongTypeRejected ==
    /\ \A b \in BearerTokens :
            (b # NoAccessToken /\ b.type # "access") =>
                ValidateToken(b) = ValidateToken(MalformedToken)
    /\ (last.route # "" /\ last.accessToken.type \notin {"access", "none"}) =>
            /\ last.op = "guard"
            /\ last.result = "unauthorized"
            /\ last.message = "Invalid or expired token"
    /\ (last.route # "" /\ last.accessToken.secret = "forged") =>
            /\ last.op = "guard"
            /\ last.result = "unauthorized"
            /\ last.message = "Invalid or expired token"

C12_SignedRefreshTypeRejected ==
    /\ last.op = "guard"
    /\ last.accessToken.type = "refresh"
    /\ last.accessToken.secret = JwtSecret
    /\ last.accessToken.sub \in UserIds
    /\ last.result = "unauthorized"

\* C13: two consecutive failing calls of the same kind (two verifySignature
\* calls, or two requests stopped by the guard) get the same Unauthorized
\* reply, message included, whichever check failed.
C13_FailuresIndistinguishable ==
    [][(/\ last.result = "unauthorized" /\ last'.result = "unauthorized"
        /\ last.op = last'.op
        /\ last.op \in {"verify", "guard"})
            => last'.message = last.message]_vars

\* C14: a request to a guarded route without a bearer token, or with one that
\* validateToken rejects, is answered Unauthorized and the endpoint does not run:
\* the refresh token store is as before; with a valid token the request context
\* carries the subject and the wallet address of the token's claims.
GuardEffect ==
    LET b == last'.accessToken IN
    IF b = NoAccessToken \/ ~ValidateToken(b).ok
    THEN /\ last'.op = "guard"
         /\ last'.result = "unauthorized"
         /\ refreshTokens' = refreshTokens
         /\ loggedOut' = loggedOut
    ELSE /\ last'.op \in {"me", "logout"}
         /\ last'.userId = b.sub
         /\ last'.walletAddress = b.walletAddress

C14_GuardBeforeEndpoint == [][RouteStep => GuardEffect]_vars

C14_RejectedLogoutKeepsToken ==
    /\ last.op = "guard"
    /\ last.route = "logout"
    /\ last.activeAtStart
    /\ FindRefreshToken(last.refreshToken) # NoToken
    /\ last.refreshToken \notin loggedOut

\* a request to /auth/me carrying an access token the service issued has just
\* been answered
IssuedTokenPresented ==
    /\ RouteStep
    /\ last' # last
    /\ last'.route = "me"
    /\ last'.accessToken \in IssuedAccessTokens

C16_MissingUserUnauthorized ==
    [][(RouteStep /\ last' # last /\ last'.op = "me") =>
        IF \E id \in UserIds : id = last'.userId /\ users[id].isActive
        THEN last'.result = "ok"
        ELSE /\ last'.result = "unauthorized"
             /\ last'.message = "User not found"]_vars

C16_DeactivatedUserUnauthorized ==
    /\ last.op = "me"
    /\ last.userId \in UserIds
    /\ ~users[last.userId].isActive
    /\ ValidateToken(last.accessToken).ok
    /\ last.result = "unauthorized"

\* C17: a verifySignature call that fails with Unauthorized leaves the user
\* store and the refresh-token store as they were, the pending nonce included;
\* a verifySignature call that follows a failed one for the same pending nonce
\* and carries a correct signature succeeds.
FailedVerifyFrame ==
    (last' # last /\ last'.op = "verify" /\ last'.result = "unauthorized") =>
        /\ users' = users
        /\ refreshTokens' = refreshTokens

RetrySucceeds ==
    (last.op = "verify" /\ last.retryAtStart /\ VerifyConditions(last)) =>
        last.result = "ok"

C17_FailedVerifyKeepsNonce == [][FailedVerifyFrame /\ RetrySucceeds']_vars

C17_RetryAfterFailureSucceeds ==
    /\ last.op = "verify"
    /\ last.retryAtStart
    /\ last.result = "ok"
    /\ RedeemedBy(last.userNonce) # {}

\* C18: when challenges for a wallet run concurrently, the write made last
\* decides the stored nonce; a verifySignature call carrying the wallet's
\* signature over the message of the stored nonce succeeds, and one carrying its
\* signature over the message of the nonce overwritten last fails with
\* Unauthorized.
StoredAccepted ==
    (last.op = "verify" /\ VerifyConditions(last)) => last.result = "ok"

C18_LastWriteWins ==
    [][ChallengeStored /\ ReplacedNotStored' /\ ReplacedRejected' /\ StoredAccepted']_vars

\* the overwritten nonce was drawn after the stored one: the two challenges overlapped
C18_OverwrittenOfOverlapRejected ==
    /\ last.op = "verify"
    /\ last.replacedAtStart
    /\ last.result = "unauthorized"
    /\ last.userNonce # NoNonce
    /\ users[last.userId].replaced > last.userNonce
    /\ proc = [p \in Procs |-> Idle]

\* C19: the nonce of a challenge is 16 random bytes written as 32 lowercase hex
\* characters, different challenges having different nonce strings; when
\* generateChallenge returns, the wallet has a user row whose stored nonce is the
\* returned one, not the one it replaced, and the wallet's signature over the
\* returned message verifies against the message rebuilt from the stored nonce.
LowercaseHex(string) ==
    \A i \in DOMAIN string : string[i] \in {HexDigits[d] : d \in DOMAIN HexDigits}

NonceFormat(n) ==
    LET string == HexNonce(n) IN
    /\ Len(string) = 2 * NonceBytes
    /\ Len(string) = 32
    /\ LowercaseHex(string)
    /\ \A m \in 1..(n - 1) : HexNonce(m) # string

ChallengeReturned ==
    (last' # last /\ last'.op = "challenge" /\ last'.result = "ok") =>
        /\ NonceFormat(last'.nonce)
        /\ \E id \in DOMAIN users' :
            /\ users'[id].walletAddress = last'.walletAddress
            /\ users'[id].nonce = last'.nonce
            /\ users'[id].nonce # NoNonce
            /\ users'[id].replaced # last'.nonce
            /\ Verify(last'.walletAddress, Message(users'[id].nonce),
                      Sign(last'.walletAddress, Message(last'.nonce)))

C19_ChallengeStoresReturnedNonce == [][ChallengeReturned]_vars

C19_SecondChallengeReplacesNonce ==
    /\ last.op = "challenge"
    /\ last.result = "ok"
    /\ last.userId \in UserIds
    /\ users[last.userId].nonce = last.nonce
    /\ users[last.userId].replaced # NoNonce
    /\ HexNonce(last.nonce) # HexNonce(users[last.userId].replaced)

\* C20: a verifySignature or refreshAccessToken call that succeeds adds exactly
\* one row to the refresh-token store, the rows already there being left as
\* they are by that write; the new row holds the returned token value, is active, belongs to the
\* authenticated user and expires 7 days after the time of issuance; the returned
\* access token carries that user's id as subject, that user's wallet address
\* and the type "access".
MintReturned ==
    /\ last' # last
    /\ last'.op \in {"verify", "refresh"}
    /\ last'.result = "ok"

AuthenticatedUser(call) ==
    IF call.op = "verify"
    THEN FindByWalletAddress(call.walletAddress)
    ELSE IF \E i \in TokenIds : refreshTokens[i].token = call.refreshToken
    THEN refreshTokens[CHOOSE i \in TokenIds :
                            refreshTokens[i].token = call.refreshToken].userId
    ELSE NoUser

MintEffect ==
    LET new == Len(refreshTokens) + 1
        user == AuthenticatedUser(last')
    IN  /\ Len(refreshTokens') = new
        /\ \A i \in TokenIds : refreshTokens'[i] = refreshTokens[i]
        /\ \A i \in TokenIds : refreshTokens[i].token # refreshTokens'[new].token
        /\ refreshTokens'[new].token = last'.newToken
        /\ refreshTokens'[new].token # NoToken
        /\ refreshTokens'[new].isActive
        /\ user # NoUser
        /\ refreshTokens'[new].userId = user
        /\ refreshTokens'[new].expiresAt = last'.accessToken.iat + RefreshTTL
        /\ last'.accessToken.iat <= now
        /\ last'.accessToken.sub = user
        /\ last'.accessToken.walletAddress = users[user].walletAddress
        /\ last'.accessToken.type = "access"
        /\ JwtVerify(last'.accessToken, JwtSecret)

IssuanceTime ==
    \A p \in Procs :
        (proc[p].pc \in {"vs_refind", "rt_invalidate"}
            /\ proc'[p].pc \in {"vs_create", "rt_create"}) =>
                /\ proc'[p].accessToken.iat = now
                /\ proc'[p].expiresAt = now + RefreshTTL

C20_SuccessMintsOneActiveToken == [][IssuanceTime /\ (MintReturned => MintEffect)]_vars

C20_RefreshMintedLater ==
    /\ last.op = "refresh"
    /\ last.result = "ok"
    /\ last.accessToken.iat > 0
    /\ \E i \in TokenIds :
            /\ refreshTokens[i].token = last.newToken
            /\ refreshTokens[i].isActive
            /\ refreshTokens[i].expiresAt = last.accessToken.iat + RefreshTTL
            /\ refreshTokens[i].userId = last.accessToken.sub

\* C22: with a nonce pending, a verifySignature call whose signature does not
\* decode, whose public key is malformed, or whose signature is well formed but
\* wrong fails with Unauthorized and the one message "Signature verification
\* failed", and returns no token; a call is never answered with another kind of
\* error on account of its signature or key.
BadSignature(call) ==
    \/ call.signature = Garbage
    \/ FromPublicKeyThrows(call.publicKey)
    \/ call.signature.key # call.publicKey
    \/ call.signature.msg # Message(call.userNonce)

C22_VerificationFailsClosed ==
    (last.op = "verify" /\ last.userNonce # NoNonce /\ BadSignature(last)) =>
        /\ last.result = "unauthorized"
        /\ last.message = "Signature verification failed"
        /\ last.newToken = NoToken
        /\ last.accessToken = NoAccessToken

C22_MalformedKeyUnauthorized ==
    /\ last.op = "verify"
    /\ last.userNonce # NoNonce
    /\ last.publicKey = MalformedKey
    /\ last.signature = Sign(last.walletAddress, Message(last.userNonce))
    /\ last.result = "unauthorized"

\* C23: in every reachable state no two user rows have the same wallet address,
\* also after concurrent generateChallenge calls for a wallet that had no row
\* when each of them looked it up.
C23_OneUserPerWallet ==
    \A id \in UserIds : \A other \in UserIds :
        users[id].walletAddress = users[other].walletAddress => id = other

C23_SecondCreateRejected ==
    /\ last.op = "challenge"
    /\ last.userId = NoUser
    /\ last.result = "error"
    /\ Cardinality({id \in UserIds : users[id].walletAddress = last.walletAddress}) = 1

\* C25: a refreshAccessToken call that fails with Unauthorized leaves the
\* refresh-token store as it was: it invalidates no row and creates none; an
\* expired token whose row is still active stays active after being presented.
C25_FailedRefreshKeepsStore ==
    [][(last' # last /\ last'.op = "refresh" /\ last'.result = "unauthorized") =>
            refreshTokens' = refreshTokens]_vars

C25_ExpiredTokenStaysActive ==
    /\ last.op = "refresh"
    /\ last.result = "unauthorized"
    /\ last.activeAtStart
    /\ Expired(last.tokenExpiresAt, last.readAt)
    /\ FindRefreshToken(last.refreshToken) # NoToken

\* C26: when the user row owning the wallet or the presented refresh token has
\* isActive false at the start of the call, neither verifySignature nor
\* refreshAccessToken returns a pair of tokens.
C26_NoTokensForDeactivatedUser ==
    (/\ last.op \in {"verify", "refresh"}
     /\ last.userId # NoUser
     /\ ~last.userActive) =>
        /\ last.result # "ok"
        /\ last.newToken = NoToken
        /\ last.accessToken = NoAccessToken

\* the user row and the refresh token rows of a wallet
UserRow(w) == {users[id] : id \in {u \in UserIds : users[u].walletAddress = w}}

TokensOf(w) ==
    {refreshTokens[i] :
        i \in {j \in TokenIds : users[refreshTokens[j].userId].walletAddress = w}}

\* the wallet a call is made for: the walletAddress of a challenge or a verify,
\* the owner's wallet of the token presented to refresh or logout
CallWallet(call) ==
    IF call.op \in {"challenge", "verify"} THEN call.walletAddress
    ELSE IF call.op \in {"refresh", "logout"} /\ OwnerOf(call.refreshToken) # NoUser
    THEN users[OwnerOf(call.refreshToken)].walletAddress
    ELSE ""

\* this step is a step of a call made for wallet w
ActsFor(w) ==
    \/ \E p \in Procs :
            /\ proc'[p] # proc[p]
            /\ CallWallet(IF Free(p) THEN proc'[p] ELSE proc[p]) = w
    \/ proc' = proc /\ last' # last /\ CallWallet(last') = w

\* the outcome of a call when the calls for its wallet run alone
SequentialOutcome(call) ==
    /\ call.op = "challenge" => call.result = "ok"
    /\ call.op = "verify" =>
            call.result = (IF VerifyConditions(call) THEN "ok" ELSE "unauthorized")
    /\ call.op = "refresh" =>
            call.result = (IF call.activeAtStart
                              /\ ~Expired(call.tokenExpiresAt, call.readAt)
                           THEN "ok" ELSE "unauthorized")
    /\ call.op = "logout" => call.result = "ok"

\* C21: under every interleaving of the calls for two wallets, each step of
\* generateChallenge, verifySignature, refreshAccessToken or logout made for
\* one wallet (or its tokens) leaves the other wallet's user row, pending nonce
\* and refresh token rows unchanged, and each call ends as it does when the
\* calls for the two wallets run one after the other: a challenge succeeds and
\* its nonce is the pending one, a verify succeeds exactly on its three
\* conditions and clears the nonce, a refresh succeeds exactly for an active
\* unexpired token, a logout succeeds.
C21_WalletsDoNotInterfere ==
    [][/\ \A w \in Wallets : ActsFor(w) =>
            \A v \in Wallets \ {w} :
                /\ UserRow(v)' = UserRow(v)
                /\ TokensOf(v)' = TokensOf(v)
       /\ last' # last =>
            /\ SequentialOutcome(last')
            /\ (last'.op = "challenge") =>
                    users'[last'.userId].nonce = last'.nonce
            /\ (last'.op = "verify" /\ last'.result = "ok") =>
                    users'[last'.userId].nonce = NoNonce]_vars

C21_VerifyOverlapsOtherRefresh ==
    /\ last.op = "verify"
    /\ last.result = "ok"
    /\ last.walletAddress = "GB"
    /\ proc["h1"].pc = "rt_create"
    /\ users[FindByWalletAddress("GA")].nonce = NoNonce
    /\ Cardinality(TokensOf("GA")) = 1

\* the row of a refresh token value
RowOf(token) == CHOOSE i \in TokenIds : refreshTokens[i].token = token

\* the row minted by the verifySignature call a row's chain of rotations began with
RECURSIVE SessionRoot(_)
SessionRoot(i) ==
    IF refreshTokens[i].origin.kind = "refresh"
    THEN SessionRoot(RowOf(refreshTokens[i].origin.of))
    ELSE i

\* C24: every refresh token row minted by refreshAccessToken(t) has the owning
\* user of t, and so has the row its chain of rotations started from; the
\* access token returned by a successful refreshAccessToken(t) carries the id
\* and the wallet address of t's owning user, and the new refresh token is a
\* row of that user.
C24_RotationPreservesOwnership ==
    /\ \A i \in TokenIds :
            /\ refreshTokens[i].origin.kind = "refresh" =>
                    refreshTokens[i].userId = OwnerOf(refreshTokens[i].origin.of)
            /\ refreshTokens[i].userId = refreshTokens[SessionRoot(i)].userId
    /\ (last.op = "refresh" /\ last.result = "ok") =>
            /\ last.accessToken.sub = OwnerOf(last.refreshToken)
            /\ last.accessToken.walletAddress =
                    users[OwnerOf(last.refreshToken)].walletAddress
            /\ OwnerOf(last.newToken) = OwnerOf(last.refreshToken)

C24_FirstUserRotatesBesideSecond ==
    /\ last.op = "refresh"
    /\ last.result = "ok"
    /\ Len(users) = 2
    /\ OwnerOf(last.refreshToken) = 1
    /\ OwnerOf(last.newToken) = 1
    /\ \E i \in TokenIds : refreshTokens[i].userId = 2

\* C27: a logout request let through by the guard invalidates only refresh
\* tokens of the user its access token names: every refresh token row of
\* another user is left as it was, so a request with user A's access token and
\* user B's refresh token leaves B's token active.
C27_LogoutKeepsOthersTokens ==
    [][(/\ last' # last
        /\ last'.op = "logout"
        /\ last'.route = "logout") =>
            \A i \in TokenIds :
                refreshTokens[i].userId # last'.userId =>
                    refreshTokens'[i] = refreshTokens[i]]_vars

====
